---------------------------- MODULE Spec2Model ----------------------------
(***************************************************************************)
(* A model of the connection registry (Conns), the statement-validation    *)
(* gateway (validate_sql) and the eleven dispatcher verbs of               *)
(* src/src/mysql.rs.                                                       *)
(*                                                                         *)
(* A SQL text is a sequence of tokens.  A head token ("SELECT", "INSERT",  *)
(* ...) starts a statement of that kind, "x" is any operand, ";" is the    *)
(* statement delimiter and "BQ" is the identifier quote (a backquote).      *)
(***************************************************************************)
EXTENDS Naturals, Sequences, FiniteSets

(***************************************************************************)
(* Bounds of the model.                                                    *)
(***************************************************************************)
NProcs == 2
MaxRegs == 2
MaxTextLen == 3
MaxIdentLen == 6
MaxRows == 2
MaxCols == 2

Procs == 1..NProcs

(***************************************************************************)
(* SQL texts, their lexing and parsing (Parser::parse_sql, MySqlDialect).  *)
(***************************************************************************)
Heads ==
    {"SELECT", "INSERT", "UPDATE", "DELETE", "CREATE_TABLE", "CREATE_INDEX",
     "DROP_TABLE", "DROP_INDEX", "CREATE_DATABASE"}

StatementKind(head) ==
    CASE head = "SELECT" -> "Query"
      [] head = "INSERT" -> "Insert"
      [] head = "UPDATE" -> "Update"
      [] head = "DELETE" -> "Delete"
      [] head = "CREATE_TABLE" -> "CreateTable"
      [] head = "CREATE_INDEX" -> "CreateIndex"
      [] head = "DROP_TABLE" -> "DropTable"
      [] head = "DROP_INDEX" -> "DropIndex"
      [] head = "CREATE_DATABASE" -> "CreateDatabase"

\* Lexing: a backquote opens a quoted identifier that runs to the next
\* backquote that is not doubled; the identifier becomes one "ID" lexeme.
\* A quote left open at the end of the text is the lexeme "!".
RECURSIVE LexFrom(_, _, _)
LexFrom(t, i, inQuote) ==
    IF i > Len(t)
    THEN IF inQuote THEN <<"!">> ELSE <<>>
    ELSE IF inQuote
         THEN IF t[i] = "BQ"
              THEN IF i + 1 <= Len(t) /\ t[i + 1] = "BQ"
                   THEN LexFrom(t, i + 2, TRUE)
                   ELSE <<"ID">> \o LexFrom(t, i + 1, FALSE)
              ELSE LexFrom(t, i + 1, TRUE)
         ELSE IF t[i] = "BQ"
              THEN LexFrom(t, i + 1, TRUE)
              ELSE <<t[i]>> \o LexFrom(t, i + 1, FALSE)

Lex(t) == LexFrom(t, 1, FALSE)

ParseError == [ok |-> FALSE, stmts |-> <<>>]

\* The statement loop of the parser: skip delimiters, stop at the end of
\* the text, fail when a statement follows another without a delimiter,
\* otherwise parse one statement (a head and its operands).
RECURSIVE ParseFrom(_, _, _, _)
RECURSIVE OperandsEnd(_, _)
OperandsEnd(l, i) ==
    IF i > Len(l) \/ l[i] \in Heads \cup {";", "!"}
    THEN i
    ELSE OperandsEnd(l, i + 1)

ParseFrom(l, i, expectingDelimiter, acc) ==
    IF i > Len(l)
    THEN [ok |-> TRUE, stmts |-> acc]
    ELSE IF l[i] = ";"
         THEN ParseFrom(l, i + 1, FALSE, acc)
         ELSE IF expectingDelimiter \/ l[i] \notin Heads
              THEN ParseError
              ELSE ParseFrom(l, OperandsEnd(l, i + 1), TRUE,
                             Append(acc, StatementKind(l[i])))

parse_sql(t) == ParseFrom(Lex(t), 1, FALSE, <<>>)


(***************************************************************************)
(* validate_sql and the statements the verbs build themselves.             *)
(***************************************************************************)
SqlVerbs == {"query", "insert", "update", "delete", "create_table", "create_index"}
IdentVerbs == {"drop_table", "drop_index", "create_schema"}
BoundVerbs == {"describe", "list_tables"}
Verbs == SqlVerbs \cup IdentVerbs \cup BoundVerbs

\* The statement variant each verb's validator closure matches.
ExpectedKind(verb) ==
    CASE verb = "query" -> "Query"
      [] verb = "insert" -> "Insert"
      [] verb = "update" -> "Update"
      [] verb = "delete" -> "Delete"
      [] verb = "create_table" -> "CreateTable"
      [] verb = "create_index" -> "CreateIndex"

\* A validator pasted from delete's into update: a mutant of validator.
validator_pasted(verb, stmt) ==
    stmt = ExpectedKind(IF verb = "update" THEN "delete" ELSE verb)

validator(verb, stmt) == stmt = ExpectedKind(verb)

error_msg(verb) ==
    CASE verb = "query" -> "Only SELECT queries are allowed"
      [] verb = "insert" -> "Only INSERT statements are allowed"
      [] verb = "update" -> "Only UPDATE statements are allowed"
      [] verb = "delete" -> "Only DELETE statements are allowed"
      [] verb = "create_table" -> "Only CREATE TABLE statements are allowed"
      [] verb = "create_index" -> "Only CREATE INDEX statements are allowed"

ErrParse == "sql parser error"
ErrMultiple == "Only single statement queries are allowed"
ErrNotFound == "Connection not found"
ErrConnect == "pool connect error"
ErrEngine == "database error"

Prepared(text, binds) == [ok |-> TRUE, err |-> "", text |-> text, binds |-> binds]
Rejected(msg) == [ok |-> FALSE, err |-> msg, text |-> <<>>, binds |-> <<>>]

\* A count check that only refuses the empty text (statements.is_empty()
\* for statements.len() != 1): a mutant of validate_sql.
validate_sql_nonempty(query, verb) ==
    LET parsed == parse_sql(query) IN
    IF ~parsed.ok THEN Rejected(ErrParse)
    ELSE IF Len(parsed.stmts) = 0 THEN Rejected(ErrMultiple)
    ELSE IF validator(verb, parsed.stmts[1]) THEN Prepared(query, <<>>)
    ELSE Rejected(error_msg(verb))

\* A validate_sql that returns the parsed statement written out again, so
\* without the delimiters around it: a mutant of validate_sql.
validate_sql_rewritten(query, verb) ==
    LET parsed == parse_sql(query)
        IsNoDelimiter(t) == t # ";"
    IN
    IF ~parsed.ok THEN Rejected(ErrParse)
    ELSE IF Len(parsed.stmts) # 1 THEN Rejected(ErrMultiple)
    ELSE IF validator(verb, parsed.stmts[1])
         THEN Prepared(SelectSeq(query, IsNoDelimiter), <<>>)
    ELSE Rejected(error_msg(verb))

validate_sql(query, verb) ==
    LET parsed == parse_sql(query) IN
    IF ~parsed.ok THEN Rejected(ErrParse)
    ELSE IF Len(parsed.stmts) # 1 THEN Rejected(ErrMultiple)
    ELSE IF validator(verb, parsed.stmts[1]) THEN Prepared(query, <<>>)
    ELSE Rejected(error_msg(verb))

\* A drop without IF EXISTS: a mutant of DropTableSql.
DropTableSqlPlain(table) == <<"DROP_TABLE", "BQ">> \o table \o <<"BQ">>

DropTableSql(table) == <<"DROP_TABLE", "IF_EXISTS", "BQ">> \o table \o <<"BQ">>
DropIndexSql(index, table) ==
    <<"DROP_INDEX", "BQ">> \o index \o <<"BQ", "ON", "BQ">> \o table \o <<"BQ">>
CreateSchemaSql(schema_name) ==
    <<"CREATE_DATABASE", "IF_NOT_EXISTS", "BQ">> \o schema_name \o <<"BQ">>
DescribeSql == <<"SELECT", "x", "?">>
ListTablesSql == <<"SELECT", "x", "x", "?">>

\* describe and list_tables with the identifier formatted into the text
\* like the identifier verbs do: a mutant of Prepare.
PrepareInterpolated(verb, a, b) ==
    CASE verb \in SqlVerbs -> validate_sql(a, verb)
      [] verb = "drop_table" -> Prepared(DropTableSql(a), <<>>)
      [] verb = "drop_index" -> Prepared(DropIndexSql(a, b), <<>>)
      [] verb = "create_schema" -> Prepared(CreateSchemaSql(a), <<>>)
      [] verb = "describe" -> Prepared(<<"SELECT", "x", "BQ">> \o a \o <<"BQ">>, <<>>)
      [] verb = "list_tables" -> Prepared(<<"SELECT", "x", "x", "BQ">> \o a \o <<"BQ">>, <<>>)

\* What a verb hands to the pool: the validated text, the statement it
\* formats from its identifiers, or its fixed query with one bound value.
Prepare(verb, a, b) ==
    CASE verb \in SqlVerbs -> validate_sql(a, verb)
      [] verb = "drop_table" -> Prepared(DropTableSql(a), <<>>)
      [] verb = "drop_index" -> Prepared(DropIndexSql(a, b), <<>>)
      [] verb = "create_schema" -> Prepared(CreateSchemaSql(a), <<>>)
      [] verb = "describe" -> Prepared(DescribeSql, <<a>>)
      [] verb = "list_tables" -> Prepared(ListTablesSql, <<a>>)

(***************************************************************************)
(* The database server behind a pool, as far as the verbs' results depend  *)
(* on it: which tables exist and how many rows each holds.  A request is   *)
(* one prepared statement with its bound values.                           *)
(***************************************************************************)
ErrSyntax == "statement not accepted"
ErrNoTable == "table does not exist"
ErrTableExists == "table already exists"
ErrTableFull == "table is full"

\* The name of the connection's database.
Schema == <<"s">>

EmptyDb == [t \in {} |-> 0]
DbSet(d, t, n) == [u \in DOMAIN d \cup {t} |-> IF u = t THEN n ELSE d[u]]
DbRemove(d, t) == [u \in DOMAIN d \ {t} |-> d[u]]

IsNameToken(t) == t \notin {"BQ", "IF_EXISTS", "IF_NOT_EXISTS"}
\* The table a statement names: its operands without the quoting.
TableOf(text) == SelectSeq(Tail(text), IsNameToken)

Row(t, k) == [table |-> t, n |-> k]

\* A column of a fetched row: its name and whether its value converts to
\* a structured (JSON) value and to a text.
ColumnNames == {"id", "name"}
Column(name, json, text) == [name |-> name, json |-> json, text |-> text]
Columns == {Column(c, j, t) : c \in ColumnNames, j \in BOOLEAN, t \in BOOLEAN}
\* The columns of the model's tables: a number and a text.
TableColumns == <<Column("id", FALSE, FALSE), Column("name", FALSE, TRUE)>>
\* Row k of table t as a query fetches it.
FetchedRow(t, k, cols) == [table |-> t, n |-> k, cols |-> cols]
Reply(text, affected, rows) ==
    [ok |-> TRUE, err |-> "", affected |-> affected, rows |-> rows, stmt |-> text]
Failure(text, msg) ==
    [ok |-> FALSE, err |-> msg, affected |-> 0, rows |-> {}, stmt |-> text]
NoReply == [ok |-> FALSE, err |-> "none", affected |-> 0, rows |-> {}, stmt |-> <<>>]

Answer(d, reply) == [db |-> d, reply |-> reply]

\* The server's answer to one request and the database it leaves.
Engine(d, text, binds) ==
    LET parsed == parse_sql(text)
        t == TableOf(text)
    IN
    IF ~parsed.ok \/ Len(parsed.stmts) # 1
    THEN Answer(d, Failure(text, ErrSyntax))
    ELSE IF text = DescribeSql
    THEN Answer(d, Reply(text, 0,
                IF binds[1] \in DOMAIN d THEN {Row(binds[1], 0)} ELSE {}))
    ELSE IF text = ListTablesSql
    THEN Answer(d, Reply(text, 0,
                IF binds[1] = Schema THEN {Row(u, 0) : u \in DOMAIN d} ELSE {}))
    ELSE
    CASE parsed.stmts[1] = "CreateTable" ->
            IF t \in DOMAIN d
            THEN Answer(d, Failure(text, ErrTableExists))
            ELSE Answer(DbSet(d, t, 0), Reply(text, 0, {}))
      [] parsed.stmts[1] = "DropTable" ->
            IF t \in DOMAIN d
            THEN Answer(DbRemove(d, t), Reply(text, 0, {}))
            ELSE IF text[2] = "IF_EXISTS"
                 THEN Answer(d, Reply(text, 0, {}))
                 ELSE Answer(d, Failure(text, ErrNoTable))
      [] parsed.stmts[1] = "Insert" ->
            IF t \notin DOMAIN d
            THEN Answer(d, Failure(text, ErrNoTable))
            ELSE IF d[t] >= MaxRows
                 THEN Answer(d, Failure(text, ErrTableFull))
                 ELSE Answer(DbSet(d, t, d[t] + 1), Reply(text, 1, {}))
      [] parsed.stmts[1] = "Update" ->
            IF t \notin DOMAIN d
            THEN Answer(d, Failure(text, ErrNoTable))
            ELSE Answer(d, Reply(text, d[t], {}))
      [] parsed.stmts[1] = "Delete" ->
            IF t \notin DOMAIN d
            THEN Answer(d, Failure(text, ErrNoTable))
            ELSE Answer(DbSet(d, t, 0), Reply(text, d[t], {}))
      [] parsed.stmts[1] = "Query" ->
            IF t \notin DOMAIN d
            THEN Answer(d, Failure(text, ErrNoTable))
            ELSE Answer(d, Reply(text, 0,
                        {FetchedRow(t, k, TableColumns) : k \in 1..d[t]}))
      [] OTHER -> Answer(d, Reply(text, 0, {}))

(***************************************************************************)
(* The verbs' results (the Ok(..) string each verb returns).               *)
(***************************************************************************)
RowVerbs == {"insert", "update", "delete"}
DdlVerbs == {"create_table", "create_index"} \cup IdentVerbs
ReadVerbs == {"query"} \cup BoundVerbs

Out(text, n, rows) == [text |-> text, n |-> n, rows |-> rows]
NoOut == Out("", 0, {})

\* The JSON value of column i of row k: the structured value, the text as
\* a JSON string, or null.
JsonValue(k, i) == [kind |-> "json", row |-> k, col |-> i]
TextValue(k, i) == [kind |-> "string", row |-> k, col |-> i]
Null == [kind |-> "null", row |-> 0, col |-> 0]

\* A conversion without the fallback to text: a mutant of CellValue.
CellValueNoText(cols, k, i) ==
    IF cols[i].json THEN JsonValue(k, i) ELSE Null

\* query, lines 99-105: try_get as a JSON value, else as a String, else Null.
CellValue(cols, k, i) ==
    IF cols[i].json THEN JsonValue(k, i)
    ELSE IF cols[i].text THEN TextValue(k, i)
    ELSE Null

\* query, lines 96-107: the map of a row after its first i columns were
\* inserted under their names (an insert replaces an entry of that name).
EmptyObject == [c \in {} |-> Null]
RECURSIVE ObjectOf(_, _, _)
ObjectOf(cols, k, i) ==
    IF i = 0
    THEN EmptyObject
    ELSE LET m == ObjectOf(cols, k, i - 1) IN
         [c \in DOMAIN m \cup {cols[i].name} |->
             IF c = cols[i].name THEN CellValue(cols, k, i) ELSE m[c]]

ShapeRow(r) ==
    [table |-> r.table, n |-> r.n, object |-> ObjectOf(r.cols, r.n, Len(r.cols))]

\* insert, update and delete answering like the DDL verbs: a mutant of
\* Shape.
ShapeSuccessOnly(verb, reply) ==
    CASE verb \in RowVerbs \cup DdlVerbs -> Out("success", 0, {})
      [] verb = "query" -> Out("json", 0, {ShapeRow(r) : r \in reply.rows})
      [] verb \in BoundVerbs -> Out("json", 0, reply.rows)

Shape(verb, reply) ==
    CASE verb \in RowVerbs -> Out("success, rows_affected", reply.affected, {})
      [] verb \in DdlVerbs -> Out("success", 0, {})
      [] verb = "query" -> Out("json", 0, {ShapeRow(r) : r \in reply.rows})
      [] verb \in BoundVerbs -> Out("json", 0, reply.rows)

(***************************************************************************)
(* Inputs.                                                                 *)
(***************************************************************************)
ConnStrs == {"mysql://a", "mysql://b"}
SqlTokens ==
    {"SELECT", "INSERT", "UPDATE", "DELETE", "CREATE_TABLE", "CREATE_INDEX",
     "DROP_TABLE", ";", "x"}
IdentTokens == {"x", "BQ", ";", "DELETE"}
\* The texts and the identifiers of a given length.
Texts(k) == [1..k -> SqlTokens]
Idents(k) == [1..k -> IdentTokens]
PlainIdent == <<"x">>

VerbCall(verb, a, b) == [verb |-> verb, a |-> a, b |-> b]

\* The verb calls of the concurrent specification: one per way a call can end.
ConcurrentVerbCalls ==
    {VerbCall("query", <<"SELECT", "x">>, <<>>),
     VerbCall("query", <<"DELETE", "x">>, <<>>),
     VerbCall("drop_table", PlainIdent, <<>>)}

Ids == 1..MaxRegs
\* Id 0 is an id no register call ever returns.
LookupIds == 0..MaxRegs

(***************************************************************************)
(* The registry: HashMap<String, Conn> behind Arc<ArcSwap<..>>.            *)
(***************************************************************************)
EmptyMap == [i \in {} |-> 0]
Conn(id, conn_str, pool) == [id |-> id, conn_str |-> conn_str, pool |-> pool]
\* An insert into a new map instead of the clone: a mutant of Insert.
InsertAlone(m, id, conn) == [i \in {id} |-> conn]

Insert(m, id, conn) == [i \in DOMAIN m \cup {id} |-> IF i = id THEN conn ELSE m[i]]
\* A remove that leaves the entry in the clone: a mutant of Remove.
RemoveNothing(m, id) == m

Remove(m, id) == [i \in DOMAIN m \ {id} |-> m[i]]
PoolsOf(m) == {m[i].pool : i \in DOMAIN m}

VARIABLES
    inner,      \* the published snapshot of the mapping
    nextId,     \* the number of ids generated so far
    nextPool,   \* the number of pools connected so far
    released,   \* the pools whose last reference was dropped
    pc,         \* where each task is in its call
    call,       \* each task's current (or last) call and its arguments
    conns,      \* each task's local map: a load() guard or a clone
    pool,       \* register's connected pool before it moves into a Conn (0: none)
    sent,       \* what each task's current (or last) call executed on a pool
    result,     \* what each task's last call returned
    returned,   \* history: the ids register has returned
    unregOk,    \* history: how often unregister(id) returned Ok
    published,  \* history: every mapping that was ever the published one
    poolOf,     \* history: the pool of the Conn built for each id (0: none)
    db,         \* the database behind the pool: the rows of each table
    answer      \* the database's reply to each task's statement

vars ==
    <<inner, nextId, nextPool, released, pc, call, conns, pool, sent, result,
      returned, unregOk, published, poolOf, db, answer>>

NoCall == [op |-> "none", id |-> 0, conn_str |-> "", a |-> <<>>, b |-> <<>>]
NoResult == [ok |-> FALSE, err |-> "none", id |-> 0, out |-> NoOut]
Ok(id) == [ok |-> TRUE, err |-> "", id |-> id, out |-> NoOut]
OkOut(out) == [ok |-> TRUE, err |-> "", id |-> 0, out |-> out]
Err(msg) == [ok |-> FALSE, err |-> msg, id |-> 0, out |-> NoOut]

Init ==
    /\ inner = EmptyMap
    /\ nextId = 0
    /\ nextPool = 0
    /\ released = {}
    /\ pc = [p \in Procs |-> "idle"]
    /\ call = [p \in Procs |-> NoCall]
    /\ conns = [p \in Procs |-> EmptyMap]
    /\ pool = [p \in Procs |-> 0]
    /\ sent = [p \in Procs |-> <<>>]
    /\ result = [p \in Procs |-> NoResult]
    /\ returned = {}
    /\ unregOk = [i \in Ids |-> 0]
    /\ published = {EmptyMap}
    /\ poolOf = [i \in Ids |-> 0]
    /\ db = EmptyDb
    /\ answer = [p \in Procs |-> NoReply]

\* Reference counting of the pool handles: a pool is released when no
\* published or local map and no register call holds a clone of it.
\* Readers that keep a bare reference instead of a guard, so that only the
\* published map counts: a mutant of Held.
HeldByPublished(in, cs, pl) ==
    PoolsOf(in) \cup {pl[p] : p \in {q \in Procs : pl[q] # 0}}

Held(in, cs, pl) ==
    PoolsOf(in) \cup UNION {PoolsOf(cs[p]) : p \in Procs}
        \cup {pl[p] : p \in {q \in Procs : pl[q] # 0}}

\* An unregister that closes what it removed, whoever still uses it: only
\* the published map and the pools being connected count.  A mutant of Drop.
DropUnpublished(rel, np, in, cs, pl) ==
    rel \cup ((1..np) \ (PoolsOf(in) \cup {pl[p] : p \in {q \in Procs : pl[q] # 0}}))

Drop(rel, np, in, cs, pl) == rel \cup ((1..np) \ Held(in, cs, pl))

(***************************************************************************)
(* Calls.  A task starts a call when it is idle, runs it to "done" and     *)
(* ends when the caller has taken the result.                              *)
(***************************************************************************)
Begin(p) == pc[p] = "idle"

Start(p, c) == call' = [call EXCEPT ![p] = c]

Return(p, r) ==
    /\ pc' = [pc EXCEPT ![p] = "done"]
    /\ result' = [result EXCEPT ![p] = r]

\* The caller takes the result and the task ends.
Forget(p) ==
    /\ pc[p] = "done"
    /\ pc' = [pc EXCEPT ![p] = "idle"]
    /\ call' = [call EXCEPT ![p] = NoCall]
    /\ sent' = [sent EXCEPT ![p] = <<>>]
    /\ result' = [result EXCEPT ![p] = NoResult]
    /\ answer' = [answer EXCEPT ![p] = NoReply]
    /\ UNCHANGED <<inner, nextId, nextPool, released, conns, pool, returned, unregOk,
                   published, poolOf, db>>

\* A register that enters a placeholder for the connection before it
\* connects and leaves it there when the connect fails: a mutant of
\* RegisterConnect.
RegisterConnectPlaceholder(p, s) ==
    /\ Begin(p)
    /\ nextPool < MaxRegs
    /\ Start(p, [op |-> "register", id |-> 0, conn_str |-> s, a |-> <<>>, b |-> <<>>])
    /\ \/ /\ nextPool' = nextPool + 1
          /\ pool' = [pool EXCEPT ![p] = nextPool + 1]
          /\ pc' = [pc EXCEPT ![p] = "reg_connected"]
          /\ UNCHANGED <<result, inner>>
       \/ /\ Return(p, Err(ErrConnect))
          /\ inner' = Insert(inner, 0, Conn(0, s, 0))
          /\ UNCHANGED <<nextPool, pool>>
    /\ UNCHANGED <<nextId, released, conns, sent, returned, unregOk, published, poolOf, db, answer>>

\* register, line 56: MySqlPool::connect(&conn_str).await? either fails, and
\* the call returns the error, or yields a pool.
RegisterConnect(p, s) ==
    /\ Begin(p)
    /\ nextPool < MaxRegs
    /\ Start(p, [op |-> "register", id |-> 0, conn_str |-> s, a |-> <<>>, b |-> <<>>])
    /\ \/ /\ nextPool' = nextPool + 1
          /\ pool' = [pool EXCEPT ![p] = nextPool + 1]
          /\ pc' = [pc EXCEPT ![p] = "reg_connected"]
          /\ UNCHANGED result
       \/ /\ Return(p, Err(ErrConnect))
          /\ UNCHANGED <<nextPool, pool>>
    /\ UNCHANGED <<inner, nextId, released, conns, sent, returned, unregOk,
                   published, poolOf, db, answer>>

\* A register that inserts into the published map itself before it
\* publishes its clone: a mutant of RegisterInsert.
RegisterInsertInPlace(p) ==
    /\ pc[p] = "reg_connected"
    /\ nextId' = nextId + 1
    /\ call' = [call EXCEPT ![p].id = nextId + 1]
    /\ conns' = [conns EXCEPT ![p] =
                    Insert(inner, nextId + 1,
                           Conn(nextId + 1, call[p].conn_str, pool[p]))]
    /\ inner' = conns'[p]
    /\ pool' = [pool EXCEPT ![p] = 0]
    /\ pc' = [pc EXCEPT ![p] = "reg_inserted"]
    /\ poolOf' = [poolOf EXCEPT ![nextId + 1] = pool[p]]
    /\ UNCHANGED <<nextPool, released, sent, result, returned, unregOk, published, db, answer>>

\* A register whose id is the number of the entry in the map it loaded
\* instead of a fresh uuid: a mutant of RegisterInsert.
RegisterInsertNumbered(p) ==
    /\ pc[p] = "reg_connected"
    /\ nextId' = nextId + 1
    /\ LET id == Cardinality(DOMAIN inner) + 1 IN
       /\ call' = [call EXCEPT ![p].id = id]
       /\ conns' = [conns EXCEPT ![p] =
                       Insert(inner, id, Conn(id, call[p].conn_str, pool[p]))]
       /\ poolOf' = [poolOf EXCEPT ![id] = pool[p]]
    /\ pool' = [pool EXCEPT ![p] = 0]
    /\ pc' = [pc EXCEPT ![p] = "reg_inserted"]
    /\ UNCHANGED <<inner, nextPool, released, sent, result, returned, unregOk, published, db, answer>>

\* register, lines 57-65: a fresh uuid, the Conn, and a clone of the loaded
\* snapshot with the Conn inserted.
RegisterInsert(p) ==
    /\ pc[p] = "reg_connected"
    /\ nextId' = nextId + 1
    /\ call' = [call EXCEPT ![p].id = nextId + 1]
    /\ conns' = [conns EXCEPT ![p] =
                    Insert(inner, nextId + 1,
                           Conn(nextId + 1, call[p].conn_str, pool[p]))]
    /\ pool' = [pool EXCEPT ![p] = 0]
    /\ pc' = [pc EXCEPT ![p] = "reg_inserted"]
    /\ poolOf' = [poolOf EXCEPT ![nextId + 1] = pool[p]]
    /\ UNCHANGED <<inner, nextPool, released, sent, result, returned, unregOk, published, db, answer>>

\* register, lines 66-68: publish the local map and return the id.
RegisterStore(p) ==
    /\ pc[p] = "reg_inserted"
    /\ inner' = conns[p]
    /\ conns' = [conns EXCEPT ![p] = EmptyMap]
    /\ Return(p, Ok(call[p].id))
    /\ returned' = returned \cup {call[p].id}
    /\ released' = Drop(released, nextPool, inner', conns', pool)
    /\ published' = published \cup {inner'}
    /\ UNCHANGED <<nextId, nextPool, call, pool, sent, unregOk, poolOf, db, answer>>

\* unregister, lines 72-75: a clone of the loaded snapshot with id removed,
\* or the error when id was not in it.
UnregisterLoad(p, id) ==
    /\ Begin(p)
    /\ Start(p, [op |-> "unregister", id |-> id, conn_str |-> "", a |-> <<>>, b |-> <<>>])
    /\ IF id \in DOMAIN inner
       THEN /\ conns' = [conns EXCEPT ![p] = Remove(inner, id)]
            /\ pc' = [pc EXCEPT ![p] = "unreg_removed"]
            /\ UNCHANGED result
       ELSE /\ Return(p, Err(ErrNotFound))
            /\ UNCHANGED conns
    /\ UNCHANGED <<inner, nextId, nextPool, released, pool, sent, returned, unregOk,
                   published, poolOf, db, answer>>

\* An unregister that publishes under a write lock which every verb call
\* holds for reading until it returns: a mutant of UnregisterStore.
UnregisterStoreLocked(p) ==
    /\ pc[p] = "unreg_removed"
    /\ \A q \in Procs \ {p} : pc[q] \notin {"found", "executing"}
    /\ inner' = conns[p]
    /\ conns' = [conns EXCEPT ![p] = EmptyMap]
    /\ Return(p, Ok(0))
    /\ unregOk' = [unregOk EXCEPT ![call[p].id] = @ + 1]
    /\ released' = Drop(released, nextPool, inner', conns', pool)
    /\ published' = published \cup {inner'}
    /\ UNCHANGED <<nextId, nextPool, call, pool, sent, returned, poolOf, db, answer>>

\* unregister, lines 76-77: publish the local map and return Ok.
UnregisterStore(p) ==
    /\ pc[p] = "unreg_removed"
    /\ inner' = conns[p]
    /\ conns' = [conns EXCEPT ![p] = EmptyMap]
    /\ Return(p, Ok(0))
    /\ unregOk' = [unregOk EXCEPT ![call[p].id] = @ + 1]
    /\ released' = Drop(released, nextPool, inner', conns', pool)
    /\ published' = published \cup {inner'}
    /\ UNCHANGED <<nextId, nextPool, call, pool, sent, returned, poolOf, db, answer>>

\* A verb that validates its text before it looks the connection up: a
\* mutant of VerbLookup.
VerbLookupAfterValidation(p, id, c) ==
    /\ Begin(p)
    /\ Start(p, [op |-> c.verb, id |-> id, conn_str |-> "", a |-> c.a, b |-> c.b])
    /\ IF ~Prepare(c.verb, c.a, c.b).ok
       THEN /\ Return(p, Err(Prepare(c.verb, c.a, c.b).err))
            /\ UNCHANGED conns
       ELSE IF id \in DOMAIN inner
       THEN /\ conns' = [conns EXCEPT ![p] = inner]
            /\ pc' = [pc EXCEPT ![p] = "found"]
            /\ UNCHANGED result
       ELSE /\ Return(p, Err(ErrNotFound))
            /\ UNCHANGED conns
    /\ UNCHANGED <<inner, nextId, nextPool, released, pool, sent, returned, unregOk,
                   published, poolOf, db, answer>>

\* Every verb's first lines: let conns = self.inner.load(); conns.get(id)
\* or the error.  The guard keeps the loaded snapshot alive.
VerbLookup(p, id, c) ==
    /\ Begin(p)
    /\ Start(p, [op |-> c.verb, id |-> id, conn_str |-> "", a |-> c.a, b |-> c.b])
    /\ IF id \in DOMAIN inner
       THEN /\ conns' = [conns EXCEPT ![p] = inner]
            /\ pc' = [pc EXCEPT ![p] = "found"]
            /\ UNCHANGED result
       ELSE /\ Return(p, Err(ErrNotFound))
            /\ UNCHANGED conns
    /\ UNCHANGED <<inner, nextId, nextPool, released, pool, sent, returned, unregOk,
                   published, poolOf, db, answer>>

\* Every verb's middle: validate_sql(..)? or format!(..), then
\* sqlx::query(..).execute/fetch_all(&conn.pool), suspended on the database.
VerbSubmit(p) ==
    /\ pc[p] = "found"
    /\ LET prepared == Prepare(call[p].op, call[p].a, call[p].b) IN
       IF prepared.ok
       THEN /\ sent' = [sent EXCEPT ![p] =
                          Append(@, [text |-> prepared.text,
                                     binds |-> prepared.binds,
                                     pool |-> conns[p][call[p].id].pool])]
            /\ pc' = [pc EXCEPT ![p] = "executing"]
            /\ UNCHANGED <<conns, result, released>>
       ELSE /\ conns' = [conns EXCEPT ![p] = EmptyMap]
            /\ Return(p, Err(prepared.err))
            /\ released' = Drop(released, nextPool, inner, conns', pool)
            /\ UNCHANGED sent
    /\ UNCHANGED <<inner, nextId, nextPool, call, pool, returned, unregOk,
                   published, poolOf, db, answer>>

\* Every verb's end with the database left out: the call is resumed with
\* some answer (.await?), a result or the error is returned, and the guard
\* is dropped.
VerbFinish(p) ==
    /\ pc[p] = "executing"
    /\ conns' = [conns EXCEPT ![p] = EmptyMap]
    /\ \/ Return(p, Ok(0))
       \/ Return(p, Err(ErrEngine))
    /\ released' = Drop(released, nextPool, inner, conns', pool)
    /\ UNCHANGED <<inner, nextId, nextPool, call, pool, sent, returned, unregOk,
                   published, poolOf, db, answer>>

\* The database runs the statement a verb call is suspended on and sends
\* its reply.
EngineExecute(p) ==
    /\ pc[p] = "executing"
    /\ LET e == Engine(db, sent[p][1].text, sent[p][1].binds) IN
       /\ db' = e.db
       /\ answer' = [answer EXCEPT ![p] = e.reply]
    /\ pc' = [pc EXCEPT ![p] = "answered"]
    /\ UNCHANGED <<inner, nextId, nextPool, released, call, conns, pool, sent, result,
                   returned, unregOk, published, poolOf>>

\* The database answers a query with any rows of any columns: up to
\* MaxRows rows of up to MaxCols columns, each column of any name and kind.
EngineAnswerRows(p) ==
    /\ pc[p] = "executing"
    /\ call[p].op = "query"
    /\ \E n \in 0..MaxRows, c \in 0..MaxCols :
          \E cols \in [1..c -> Columns] :
              answer' = [answer EXCEPT ![p] =
                            Reply(sent[p][1].text, 0,
                                  {FetchedRow(TableOf(sent[p][1].text), k, cols) :
                                      k \in 1..n})]
    /\ pc' = [pc EXCEPT ![p] = "answered"]
    /\ UNCHANGED <<inner, nextId, nextPool, released, call, conns, pool, sent, result,
                   returned, unregOk, published, poolOf, db>>

\* A verb end that takes the latest reply that arrived for any call (a
\* buffer shared by the calls): a mutant of VerbResume.
VerbResumeShared(p) ==
    /\ pc[p] = "answered"
    /\ conns' = [conns EXCEPT ![p] = EmptyMap]
    /\ LET others == {q \in Procs \ {p} : pc[q] = "answered"}
           reply == IF others = {} THEN answer[p]
                    ELSE answer[CHOOSE q \in others : TRUE]
       IN
       IF reply.ok
       THEN Return(p, OkOut(Shape(call[p].op, reply)))
       ELSE Return(p, Err(reply.err))
    /\ released' = Drop(released, nextPool, inner, conns', pool)
    /\ UNCHANGED <<inner, nextId, nextPool, call, pool, sent, returned, unregOk,
                   published, poolOf, db, answer>>

\* Every verb's end with the database's reply (.await?): the error is
\* returned as it is, a reply is shaped into the verb's result, and the
\* guard is dropped.
VerbResume(p) ==
    /\ pc[p] = "answered"
    /\ conns' = [conns EXCEPT ![p] = EmptyMap]
    /\ IF answer[p].ok
       THEN Return(p, OkOut(Shape(call[p].op, answer[p])))
       ELSE Return(p, Err(answer[p].err))
    /\ released' = Drop(released, nextPool, inner, conns', pool)
    /\ UNCHANGED <<inner, nextId, nextPool, call, pool, sent, returned, unregOk,
                   published, poolOf, db, answer>>

\* The three ways a call starts, with the caller's inputs.
Register(p) == \E s \in ConnStrs : RegisterConnect(p, s)
Unregister(p) == \E id \in LookupIds : UnregisterLoad(p, id)
Verb(p, verbCalls) ==
    Begin(p) /\ \E id \in LookupIds, c \in verbCalls : VerbLookup(p, id, c)

\* A verb call with any text or identifier up to the bounds; drop_index
\* gets one such identifier and one plain one.
AnyVerb(p) ==
    /\ Begin(p)
    /\ \E id \in LookupIds :
          \/ \E v \in SqlVerbs, k \in 0..MaxTextLen :
                \E t \in Texts(k) : VerbLookup(p, id, VerbCall(v, t, <<>>))
          \/ \E v \in (IdentVerbs \ {"drop_index"}) \cup BoundVerbs, k \in 0..MaxIdentLen :
                \E t \in Idents(k) : VerbLookup(p, id, VerbCall(v, t, <<>>))
          \/ \E k \in 0..MaxIdentLen :
                \E t \in Idents(k) :
                    \/ VerbLookup(p, id, VerbCall("drop_index", t, PlainIdent))
                    \/ VerbLookup(p, id, VerbCall("drop_index", PlainIdent, t))

\* Tasks on a multi-threaded runtime: any interleaving of the steps.
Next ==
    \E p \in Procs :
        \/ Register(p)
        \/ RegisterInsert(p)
        \/ RegisterStore(p)
        \/ Unregister(p)
        \/ UnregisterStore(p)
        \/ Verb(p, ConcurrentVerbCalls)
        \/ VerbSubmit(p)
        \/ VerbFinish(p)
        \/ Forget(p)

Spec == Init /\ [][Next]_vars

\* Calls issued one after another: a call starts only while no other task
\* is in a call.
Alone(p) == \A q \in Procs \ {p} : pc[q] = "idle"

\* One call of each of the eleven verbs, and a query that is rejected.
EachVerbCalls ==
    ConcurrentVerbCalls \cup
    {VerbCall("insert", <<"INSERT", "x">>, <<>>),
     VerbCall("update", <<"UPDATE", "x">>, <<>>),
     VerbCall("delete", <<"DELETE", "x">>, <<>>),
     VerbCall("create_table", <<"CREATE_TABLE", "x">>, <<>>),
     VerbCall("create_index", <<"CREATE_INDEX", "x">>, <<>>),
     VerbCall("drop_index", PlainIdent, PlainIdent),
     VerbCall("create_schema", PlainIdent, <<>>),
     VerbCall("describe", PlainIdent, <<>>),
     VerbCall("list_tables", PlainIdent, <<>>)}

NextSeq ==
    \E p \in Procs :
        \/ Alone(p) /\ Register(p)
        \/ RegisterInsert(p)
        \/ RegisterStore(p)
        \/ Alone(p) /\ Unregister(p)
        \/ UnregisterStore(p)
        \/ Alone(p) /\ Verb(p, EachVerbCalls)
        \/ VerbSubmit(p)
        \/ VerbFinish(p)
        \/ Forget(p)

SpecSeq == Init /\ [][NextSeq]_vars

\* The gateway: one task, one registered connection, and verb calls with
\* every text and identifier of the input sets.
NextGate ==
    \/ nextPool = 0 /\ Register(1)
    \/ RegisterInsert(1)
    \/ RegisterStore(1)
    \/ Unregister(1)
    \/ UnregisterStore(1)
    \/ AnyVerb(1)
    \/ VerbSubmit(1)
    \/ VerbFinish(1)
    \/ Forget(1)

SpecGate == Init /\ [][NextGate]_vars

\* The verb calls of the round trips on one table of the connection's
\* database, with identifiers of tables and schemas that do not exist.
OtherIdent == <<"y">>
QuotingIdent == <<"BQ", ";", "DELETE", "BQ">>
DbVerbCalls ==
    {VerbCall("create_table", <<"CREATE_TABLE", "x">>, <<>>),
     VerbCall("drop_table", PlainIdent, <<>>),
     VerbCall("drop_table", OtherIdent, <<>>),
     VerbCall("insert", <<"INSERT", "x">>, <<>>),
     VerbCall("update", <<"UPDATE", "x">>, <<>>),
     VerbCall("delete", <<"DELETE", "x">>, <<>>),
     VerbCall("query", <<"SELECT", "x">>, <<>>),
     VerbCall("describe", PlainIdent, <<>>),
     VerbCall("describe", OtherIdent, <<>>),
     VerbCall("describe", QuotingIdent, <<>>),
     VerbCall("list_tables", Schema, <<>>),
     VerbCall("list_tables", OtherIdent, <<>>),
     VerbCall("list_tables", QuotingIdent, <<>>)}

\* One task and one registered connection with its database.
NextDb ==
    \/ nextPool = 0 /\ Register(1)
    \/ RegisterInsert(1)
    \/ RegisterStore(1)
    \/ Unregister(1)
    \/ UnregisterStore(1)
    \/ Verb(1, DbVerbCalls)
    \/ VerbSubmit(1)
    \/ EngineExecute(1)
    \/ VerbResume(1)
    \/ Forget(1)

SpecDb == Init /\ [][NextDb]_vars

\* Concurrent calls on two tables of one registered connection.
ConcurrentDbCalls ==
    {VerbCall("create_table", <<"CREATE_TABLE", "x">>, <<>>),
     VerbCall("create_table", <<"CREATE_TABLE", "y">>, <<>>),
     VerbCall("insert", <<"INSERT", "x">>, <<>>),
     VerbCall("insert", <<"INSERT", "y">>, <<>>),
     VerbCall("query", <<"SELECT", "x">>, <<>>),
     VerbCall("query", <<"SELECT", "y">>, <<>>)}

NextDbConcurrent ==
    \E p \in Procs :
        \/ nextPool = 0 /\ Register(p)
        \/ RegisterInsert(p)
        \/ RegisterStore(p)
        \/ Verb(p, ConcurrentDbCalls)
        \/ VerbSubmit(p)
        \/ EngineExecute(p)
        \/ VerbResume(p)
        \/ Forget(p)

SpecDbConcurrent == Init /\ [][NextDbConcurrent]_vars

\* One task and one registered connection whose queries fetch rows of any
\* columns.
RowsVerbCalls == {VerbCall("query", <<"SELECT", "x">>, <<>>)}

NextRows ==
    \/ nextPool = 0 /\ Register(1)
    \/ RegisterInsert(1)
    \/ RegisterStore(1)
    \/ Verb(1, RowsVerbCalls)
    \/ VerbSubmit(1)
    \/ EngineAnswerRows(1)
    \/ VerbResume(1)
    \/ Forget(1)

SpecRows == Init /\ [][NextRows]_vars

(***************************************************************************)
(* Properties.                                                             *)
(***************************************************************************)
Range(f) == {f[i] : i \in DOMAIN f}
Finished(p, op) == pc[p] = "done" /\ call[p].op = op
\* A verb call that got past its lookup.
PastLookup(p) ==
    /\ call[p].op \in Verbs
    /\ \/ pc[p] \in {"found", "executing"}
       \/ pc[p] = "done" /\ result[p].err # ErrNotFound

\* C1: once register has returned an id, the id is in the published mapping
\* until some unregister of that id has succeeded, in every interleaving.
C1_NoRegistrationLost ==
    \A id \in returned : unregOk[id] = 0 => id \in DOMAIN inner

\* C2: once unregister(id) has returned success, id is never again in the
\* published mapping, so no verb call that starts afterwards finds it.
C2_RemovedStaysRemoved ==
    \A id \in Ids : unregOk[id] > 0 => id \notin DOMAIN inner

\* C3: with calls issued one after another, for an id that register
\* returned, the first unregister(id) succeeds and every later one fails
\* with "Connection not found": after any unregister(id) has returned,
\* exactly one has succeeded, and a failure is the not-found error.
C3_UnregisterSucceedsOnce ==
    \A p \in Procs :
        (Finished(p, "unregister") /\ call[p].id \in returned)
            => /\ unregOk[call[p].id] = 1
               /\ result[p].ok \/ result[p].err = ErrNotFound

\* C3 witness: a second unregister of a returned id has failed.
C3_Witness ==
    \E p \in Procs :
        /\ Finished(p, "unregister")
        /\ call[p].id \in returned
        /\ ~result[p].ok
        /\ unregOk[call[p].id] = 1

\* C4: among concurrent unregister calls for the same registered id at
\* most one (and, once all have returned, exactly one) returns success.
C4_OneUnregisterWins ==
    \A id \in Ids : unregOk[id] <= 1

\* The statement kind each SQL-bearing verb promises, stated on its own.
KindOfVerb ==
    [v \in SqlVerbs |->
        CASE v = "query" -> "Query"
          [] v = "insert" -> "Insert"
          [] v = "update" -> "Update"
          [] v = "delete" -> "Delete"
          [] v = "create_table" -> "CreateTable"
          [] v = "create_index" -> "CreateIndex"]

\* C5: a text that parses into a number of statements other than one makes
\* every SQL-bearing verb fail with the single-statement error, also when
\* one of its statements has the verb's kind; nothing is executed.
C5_MultipleStatementsRejected ==
    \A p \in Procs :
        (/\ PastLookup(p)
         /\ pc[p] # "found"
         /\ call[p].op \in SqlVerbs
         /\ parse_sql(call[p].a).ok
         /\ Len(parse_sql(call[p].a).stmts) # 1)
            => /\ pc[p] = "done"
               /\ result[p] = Err(ErrMultiple)
               /\ sent[p] = <<>>

\* C5 witness: query was called with two statements, the first a SELECT,
\* and failed with the single-statement error.
C5_Witness ==
    \E p \in Procs :
        /\ Finished(p, "query")
        /\ call[p].a = <<"SELECT", ";", "DELETE">>
        /\ result[p] = Err(ErrMultiple)

\* C6: for each SQL-bearing verb and every text that parses into exactly
\* one statement, the verb fails with its kind-mismatch error when the kind
\* differs from the verb's, and it executes a text only when the text is
\* exactly one statement of the verb's kind.
C6_KindMismatchRejected ==
    \A p \in Procs :
        (PastLookup(p) /\ pc[p] # "found" /\ call[p].op \in SqlVerbs)
            => LET parsed == parse_sql(call[p].a) IN
               /\ (parsed.ok /\ Len(parsed.stmts) = 1
                        /\ parsed.stmts[1] # KindOfVerb[call[p].op])
                    => /\ pc[p] = "done"
                       /\ result[p] = Err(error_msg(call[p].op))
                       /\ sent[p] = <<>>
               /\ sent[p] # <<>>
                    => /\ parsed.ok
                       /\ parsed.stmts = <<KindOfVerb[call[p].op]>>

\* C6 witness: insert was called with a SELECT and failed with its
\* kind-mismatch error.
C6_Witness ==
    \E p \in Procs :
        /\ Finished(p, "insert")
        /\ call[p].a = <<"SELECT", "x">>
        /\ result[p] = Err("Only INSERT statements are allowed")

\* The class of effect each verb's name promises.
PromisedKind(verb) ==
    CASE verb \in SqlVerbs -> KindOfVerb[verb]
      [] verb = "drop_table" -> "DropTable"
      [] verb = "drop_index" -> "DropIndex"
      [] verb = "create_schema" -> "CreateDatabase"
      [] verb \in BoundVerbs -> "Query"

\* C7: every statement in a text a verb executes on the pool has the kind
\* the verb's name promises, whatever text or identifier was supplied.
C7_OnlyPromisedEffect ==
    \A p \in Procs :
        \A i \in DOMAIN sent[p] :
            LET parsed == parse_sql(sent[p][i].text) IN
            parsed.ok =>
                \A k \in DOMAIN parsed.stmts :
                    parsed.stmts[k] = PromisedKind(call[p].op)

\* C8: a verb call executes at most once on the pool and what it executes
\* is one statement: exactly one when lookup and validation pass, none when
\* either fails.
C8_OneStatementPerCall ==
    \A p \in Procs :
        call[p].op \in Verbs =>
            /\ Len(sent[p]) <= 1
            /\ pc[p] = "found" => sent[p] = <<>>
            /\ pc[p] = "executing" => Len(sent[p]) = 1
            /\ (pc[p] = "done" /\ sent[p] = <<>>) => ~result[p].ok
            /\ \A i \in DOMAIN sent[p] :
                   parse_sql(sent[p][i].text).ok
                       => Len(parse_sql(sent[p][i].text).stmts) = 1

\* C9: drop_table, drop_index and create_schema reject an identifier that
\* contains a backquote and execute nothing for it.
C9_BackquoteRejected ==
    \A p \in Procs :
        (/\ PastLookup(p)
         /\ pc[p] # "found"
         /\ call[p].op \in IdentVerbs
         /\ "BQ" \in Range(call[p].a) \cup Range(call[p].b))
            => /\ pc[p] = "done"
               /\ ~result[p].ok
               /\ sent[p] = <<>>

\* A verb call that is past its lookup of an id that the published mapping
\* no longer holds.
Unpublished(p) ==
    /\ call[p].op \in Verbs
    /\ pc[p] \in {"found", "executing"}
    /\ call[p].id \notin DOMAIN inner

\* C10: a verb call whose lookup of id succeeded before an unregister(id)
\* was published keeps the handle it found: the handle's pool is not
\* released, the statement is executed on that pool, and the call does not
\* fail with "Connection not found".
C10_ReaderKeepsHandle ==
    [][\A p \in Procs :
          Unpublished(p) =>
              /\ call[p].id \in DOMAIN conns[p]
              /\ conns[p][call[p].id].pool \notin released
              /\ conns[p][call[p].id].pool \notin released'
                    \/ pc'[p] \notin {"found", "executing"}
              /\ pc'[p] = "executing"
                    => /\ Len(sent'[p]) = 1
                       /\ sent'[p][1].pool = conns[p][call[p].id].pool
              /\ pc'[p] = "done" => result'[p].err # ErrNotFound]_vars

\* C10 witness: a verb call is executing on the pool of an id whose
\* unregister has been published since the lookup.
C10_Witness ==
    \E p \in Procs :
        /\ pc[p] = "executing"
        /\ call[p].id \notin DOMAIN inner
        /\ unregOk[call[p].id] = 1
        /\ sent[p][1].pool \notin released

\* A verb call that holds the snapshot it loaded at its lookup.
Reading(p) == call[p].op \in Verbs /\ pc[p] \in {"found", "executing"}

\* C11: every mapping a verb call works on after its lookup is a whole
\* published snapshot: it is the initial empty mapping or the mapping some
\* register or unregister published when it finished, and each of its
\* entries is a whole Conn (its own id and a connected pool).
C11_ReadersSeePublished ==
    \A p \in Procs :
        Reading(p) =>
            /\ conns[p] \in published
            /\ \A i \in DOMAIN conns[p] :
                   /\ conns[p][i].id = i
                   /\ conns[p][i].pool \in 1..nextPool

\* C11 witness: a verb call is executing on a snapshot that a writer has
\* replaced since the lookup.
C11_Witness ==
    \E p \in Procs :
        /\ Reading(p)
        /\ pc[p] = "executing"
        /\ conns[p] # inner
        /\ conns[p] \in published

\* C12: a register call that ends in an error (the pool could not be
\* established) returns the connect error and no id, generates no id and
\* leaves the published mapping as it was.
C12_FailedRegisterChangesNothing ==
    [][\A p \in Procs :
          (pc[p] # "done" /\ pc'[p] = "done" /\ call'[p].op = "register"
                /\ ~result'[p].ok)
              => /\ result'[p] = Err(ErrConnect)
                 /\ result'[p].id = 0
                 /\ inner' = inner
                 /\ nextId' = nextId
                 /\ returned' = returned
                 /\ published' = published]_vars

\* C12 witness: a register call has failed on a registry that holds a
\* connection.
C12_Witness ==
    \E p \in Procs :
        /\ Finished(p, "register")
        /\ result[p] = Err(ErrConnect)
        /\ inner # EmptyMap

\* C13: no pool is released while its handle is in the published mapping
\* or while a verb call that looked the handle up has not returned.
C13_NoReleaseWhileInUse ==
    /\ \A i \in DOMAIN inner : inner[i].pool \notin released
    /\ \A p \in Procs :
          Reading(p) => conns[p][call[p].id].pool \notin released

\* C13 witness: one pool has been released while a verb call still
\* executes on another pool whose handle is no longer published.
C13_Witness ==
    \E p \in Procs :
        /\ Reading(p)
        /\ pc[p] = "executing"
        /\ call[p].id \notin DOMAIN inner
        /\ released # {}
        /\ conns[p][call[p].id].pool \notin released

\* No call is in progress: every guard and every clone has been dropped.
Quiescent == \A p \in Procs : pc[p] \in {"idle", "done"}

\* C14: once unregister(id) has succeeded and every call has returned, the
\* pool of id's handle has been released (no mapping holds it any more).
C14_PoolReleasedAfterUnregister ==
    \A id \in Ids :
        (unregOk[id] > 0 /\ Quiescent) => poolOf[id] \in released

\* C15: a register or unregister call that is in progress can take its
\* next step, up to publishing its mapping, whatever the verb calls are
\* doing, and a lookup can be made whatever the writers are doing.
C15_MutationNeverWaits ==
    \A p \in Procs :
        /\ pc[p] = "reg_connected" => ENABLED RegisterInsert(p)
        /\ pc[p] = "reg_inserted" => ENABLED RegisterStore(p)
        /\ pc[p] = "unreg_removed" => ENABLED UnregisterStore(p)
        /\ pc[p] = "idle" =>
              /\ ENABLED Unregister(p)
              /\ ENABLED Verb(p, ConcurrentVerbCalls)

\* C15 witness: a register call has published its mapping and returned
\* while a verb call that made its lookup before is still executing.
C15_Witness ==
    \E p, q \in Procs :
        /\ Reading(p)
        /\ pc[p] = "executing"
        /\ Finished(q, "register")
        /\ result[q].ok
        /\ call[q].id \in DOMAIN inner
        /\ call[q].id \notin DOMAIN conns[p]

\* C19: every id a register call returns differs from every id register
\* returned before and from the id of every other register call that is
\* about to return, so concurrent successful calls get distinct ids.
C19_IdsAreDistinct ==
    [][\A p \in Procs :
          (pc[p] = "reg_inserted" /\ pc'[p] = "done")
              => /\ result'[p].ok
                 /\ result'[p].id \notin returned
                 /\ \A q \in Procs \ {p} :
                        pc[q] = "reg_inserted" => call[q].id # result'[p].id]_vars

\* C19 witness: two register calls that ran concurrently have both
\* returned, with different ids.
C19_Witness ==
    /\ \A p \in Procs : Finished(p, "register") /\ result[p].ok
    /\ Cardinality({result[p].id : p \in Procs}) = NProcs

\* A call of a verb that found its connection and has returned.
OnConnection(p, op) == Finished(p, op) /\ result[p].err # ErrNotFound

C17_RowsAffectedReported ==
    /\ [](\A p \in Procs :
            (pc[p] = "done" /\ call[p].op \in RowVerbs /\ result[p].ok)
                => /\ Len(sent[p]) = 1
                   /\ answer[p].stmt = sent[p][1].text
                   /\ result[p].out =
                          Out("success, rows_affected", answer[p].affected, {}))
    /\ [][\A p \in Procs :
            (pc[p] = "executing" /\ pc'[p] = "answered"
                  /\ call[p].op \in RowVerbs /\ answer'[p].ok)
                => LET t == TableOf(call[p].a) IN
                   /\ call[p].op = "insert" =>
                          answer'[p].affected = 1 /\ db'[t] = db[t] + 1
                   /\ call[p].op = "update" =>
                          answer'[p].affected = db[t] /\ db' = db
                   /\ call[p].op = "delete" =>
                          answer'[p].affected = db[t] /\ db'[t] = 0]_vars

\* C17 witness: a delete has returned rows_affected: 1.
C17_Witness ==
    \E p \in Procs :
        /\ Finished(p, "delete")
        /\ result[p] = OkOut(Out("success, rows_affected", 1, {}))
        /\ db[PlainIdent] = 0

\* C18: describe of a table that does not exist and list_tables of a
\* schema that does not exist return the empty list as a success, and what
\* describe and list_tables execute is their fixed query with the
\* identifier as its one bound value, whatever the identifier is.
C18_AbsentIsEmptyAndBound ==
    \A p \in Procs :
        call[p].op \in BoundVerbs =>
            /\ \A i \in DOMAIN sent[p] :
                   /\ sent[p][i].text =
                          (IF call[p].op = "describe" THEN DescribeSql ELSE ListTablesSql)
                   /\ sent[p][i].binds = <<call[p].a>>
            /\ (OnConnection(p, "describe") /\ call[p].a \notin DOMAIN db)
                  => result[p] = OkOut(Out("json", 0, {}))
            /\ (OnConnection(p, "list_tables") /\ call[p].a # Schema)
                  => result[p] = OkOut(Out("json", 0, {}))

\* C18 witness: describe with an identifier that holds quoting characters
\* has returned the empty list while a table exists.
C18_Witness ==
    \E p \in Procs :
        /\ OnConnection(p, "describe")
        /\ call[p].a = QuotingIdent
        /\ result[p] = OkOut(Out("json", 0, {}))
        /\ db # EmptyDb

\* C20: a query call that succeeded returns the rows of the reply to its
\* own statement, and they are rows of the table that statement reads: no
\* row of another call's statement is in it, in every interleaving.
C20_QueriesNotInterleaved ==
    \A p \in Procs :
        (Finished(p, "query") /\ result[p].ok)
            => /\ answer[p].stmt = call[p].a
               /\ result[p].out.text = "json"
               /\ {Row(r.table, r.n) : r \in result[p].out.rows}
                     = {Row(r.table, r.n) : r \in answer[p].rows}
               /\ \A r \in result[p].out.rows : r.table = TableOf(call[p].a)

\* C20 witness: two query calls on the same connection that were suspended
\* on the database together have returned the rows of two different tables.
C20_Witness ==
    /\ \A p \in Procs : Finished(p, "query") /\ result[p].ok /\ result[p].out.rows # {}
    /\ call[1].id = call[2].id
    /\ call[1].a # call[2].a

\* C21: a verb call with an id that is not in the published mapping fails
\* with "Connection not found" at once, whatever its text or identifier is
\* (unparsable, several statements, wrong kind), and executes nothing; so
\* no call returns a validation error for an id that is not registered.
C21_LookupComesFirst ==
    [][\A p \in Procs :
          (pc[p] = "idle" /\ pc'[p] # "idle" /\ call'[p].op \in Verbs
                /\ call'[p].id \notin DOMAIN inner)
              => /\ pc'[p] = "done"
                 /\ result'[p] = Err(ErrNotFound)
                 /\ sent'[p] = <<>>]_vars

\* C21 witness: insert with a text of two statements of the wrong kind and
\* an id that is not registered has failed with "Connection not found"
\* while another id is registered.
C21_Witness ==
    \E p \in Procs :
        /\ Finished(p, "insert")
        /\ call[p].a = <<"SELECT", ";", "DELETE">>
        /\ call[p].id \notin DOMAIN inner
        /\ inner # EmptyMap
        /\ result[p] = Err(ErrNotFound)
        /\ sent[p] = <<>>

\* C22: what a SQL-bearing verb executes is the text it was called with,
\* token for token, with no bound values: validate_sql returns its input.
C22_TextSentUnchanged ==
    \A p \in Procs :
        call[p].op \in SqlVerbs =>
            /\ \A i \in DOMAIN sent[p] :
                   /\ sent[p][i].text = call[p].a
                   /\ sent[p][i].binds = <<>>
            /\ pc[p] = "found" =>
                   LET validated == validate_sql(call[p].a, call[p].op) IN
                   validated.ok => validated.text = call[p].a

\* C22 witness: query is executing a text with delimiters before and
\* after its one statement, as it was given.
C22_Witness ==
    \E p \in Procs :
        /\ pc[p] = "executing"
        /\ call[p].op = "query"
        /\ call[p].a = <<";", "SELECT", ";">>
        /\ sent[p][1].text = <<";", "SELECT", ";">>

\* C24: with calls run one at a time, only a register or an unregister
\* that succeeds changes the published mapping: no step of any verb call
\* and no failing unregister changes it, a successful unregister(id) takes
\* out id and nothing else, and a successful register puts in its new id
\* and nothing else; every other entry stays as it was.
C24_OnlyWritersChangeRegistry ==
    [][/\ \A p \in Procs :
             /\ (pc'[p] # pc[p] /\ (call[p].op \in Verbs \/ call'[p].op \in Verbs))
                   => inner' = inner
             /\ (pc[p] # "done" /\ pc'[p] = "done" /\ call'[p].op = "unregister"
                      /\ ~result'[p].ok)
                   => inner' = inner
             /\ (pc[p] = "unreg_removed" /\ pc'[p] = "done")
                   => /\ result'[p].ok
                      /\ call[p].id \in DOMAIN inner
                      /\ DOMAIN inner' = DOMAIN inner \ {call[p].id}
                      /\ \A i \in DOMAIN inner' : inner'[i] = inner[i]
             /\ (pc[p] = "reg_inserted" /\ pc'[p] = "done")
                   => /\ result'[p].ok
                      /\ call[p].id \notin DOMAIN inner
                      /\ DOMAIN inner' = DOMAIN inner \cup {call[p].id}
                      /\ \A i \in DOMAIN inner : inner'[i] = inner[i]
       /\ inner' # inner
             => \E p \in Procs :
                   /\ pc[p] \in {"reg_inserted", "unreg_removed"}
                   /\ pc'[p] = "done"]_vars

\* C24 witness: of two registered ids one has been unregistered and the
\* other is still in the mapping with its handle.
C24_Witness ==
    \E p \in Procs :
        /\ Finished(p, "unregister")
        /\ result[p].ok
        /\ Cardinality(DOMAIN inner) = 1
        /\ \A i \in DOMAIN inner : i # call[p].id /\ inner[i].pool = poolOf[i]

\* The column of a fetched row whose value an entry of its object holds:
\* the last one of that name.
LastNamed(cols, c) ==
    CHOOSE i \in DOMAIN cols :
        /\ cols[i].name = c
        /\ \A j \in DOMAIN cols : (j > i) => cols[j].name # c

\* C23: a query whose statement the database answered returns a result,
\* whatever the columns' kinds are: one object per fetched row, with one
\* entry per distinct column name, whose value is the structured value of
\* the column if that conversion succeeds, else its text if that one
\* succeeds, else null.
C23_RowShapingNeverFails ==
    \A p \in Procs :
        (pc[p] = "done" /\ call[p].op = "query" /\ answer[p].ok)
            => /\ result[p].ok
               /\ result[p].out.text = "json"
               /\ Cardinality(result[p].out.rows) = Cardinality(answer[p].rows)
               /\ \A r \in answer[p].rows :
                     \E o \in result[p].out.rows :
                        /\ o.table = r.table
                        /\ o.n = r.n
                        /\ DOMAIN o.object = {r.cols[i].name : i \in DOMAIN r.cols}
                        /\ \A c \in DOMAIN o.object :
                              LET i == LastNamed(r.cols, c) IN
                              o.object[c] =
                                 IF r.cols[i].json
                                 THEN [kind |-> "json", row |-> r.n, col |-> i]
                                 ELSE IF r.cols[i].text
                                 THEN [kind |-> "string", row |-> r.n, col |-> i]
                                 ELSE [kind |-> "null", row |-> 0, col |-> 0]

\* C23 witness: a query has returned two objects for two rows whose one
\* column converts to neither a structured value nor a text (so null) and
\* whose other column converts to a text only.
C23_Witness ==
    \E p \in Procs :
        /\ Finished(p, "query")
        /\ result[p].ok
        /\ Cardinality(result[p].out.rows) = 2
        /\ \A o \in result[p].out.rows :
              /\ DOMAIN o.object = {"id", "name"}
              /\ o.object["id"].kind = "null"
              /\ o.object["name"].kind = "string"

=============================================================================
